---- MODULE Spec2Model ----
(***************************************************************************)
(* Model of the order and payment core of the MegaMall backend             *)
(* (src/megamall/views.py, models.py, fields.py).                          *)
(*                                                                         *)
(* Request handlers run on threads.  A handler whose steps touch state     *)
(* shared with other requests (the token cache, the document store, the    *)
(* gateway) is split at those steps, so that requests interleave the way   *)
(* a thread-per-request server interleaves them.  Strings that the code    *)
(* inspects character by character are sequences of one-character strings. *)
(***************************************************************************)
EXTENDS Integers, Sequences, FiniteSets, TLC

\* ------------------------------------------------------------------ bounds
MaxTicks == 3
MaxTokenRequests == 2
MaxAmountLen == 2
MaxOrders == 1
MaxCartLen == 2
MaxPhoneLen == 4

\* --------------------------------------------------------- program constants
SafetyMargin == 60
DefaultExpiresIn == 3600
ObjectIdHexLen == 24
UUIDHexLen == 32

\* seconds that pass in one step of the clock
TickSeconds == 30

Threads == {"t1", "t2"}

VARIABLES
    now,                    \* datetime.utcnow(), in seconds
    kopokopo_token_cache,   \* views.py:558, the process-wide token cache
    issuedTokens,           \* the tokens the gateway issued: when, with which
                            \* expires_in, and when the caller took its clock
                            \* reading for the token's expiry (views.py:597)
    tokenRequests,          \* outbound token requests sent so far
    paymentRequests,        \* outbound payment requests sent so far
    products,               \* Product documents: id -> price, or absent
    shippingAddresses,      \* ShippingAddress documents
    orders,                 \* Order documents: id -> fields
    orderItems,             \* OrderItem documents, in insertion order
    pc,                     \* each thread's position
    req,                    \* each thread's current request
    local,                  \* each thread's local variables
    resp,                   \* each thread's last response
    call                    \* what each thread's current or last call did

vars == <<now, kopokopo_token_cache, issuedTokens, tokenRequests, paymentRequests,
          products, shippingAddresses, orders, orderItems, pc, req, local, resp, call>>

gatewayVars == <<kopokopo_token_cache, issuedTokens, tokenRequests, paymentRequests>>
storeVars == <<products, shippingAddresses, orders, orderItems>>

\* ------------------------------------------------------------ optional values
None == <<>>
Some(v) == <<v>>
IsSome(o) == o # None
Get(o) == o[1]

\* ------------------------------------------------------------------- strings
Rep(c, n) == [i \in 1..n |-> c]

StartsWith(s, p) == Len(s) >= Len(p) /\ SubSeq(s, 1, Len(p)) = p

RECURSIVE LStrip(_)
LStrip(s) == IF s # <<>> /\ Head(s) = " " THEN LStrip(Tail(s)) ELSE s

RECURSIVE RStrip(_)
RStrip(s) == IF s # <<>> /\ s[Len(s)] = " " THEN RStrip(SubSeq(s, 1, Len(s) - 1)) ELSE s

Strip(s) == RStrip(LStrip(s))

Digits == {"0", "1", "2", "3", "4", "5", "6", "7", "8", "9"}
HexDigits == Digits \cup {"a", "b", "c", "d", "e", "f", "A", "B", "C", "D", "E", "F"}

DigitValue(c) ==
    CASE c = "0" -> 0 [] c = "1" -> 1 [] c = "2" -> 2 [] c = "3" -> 3 [] c = "4" -> 4
      [] c = "5" -> 5 [] c = "6" -> 6 [] c = "7" -> 7 [] c = "8" -> 8 [] c = "9" -> 9

AllIn(s, chars) == \A i \in 1..Len(s) : s[i] \in chars

\* ---------------------------------------------------------- thread plumbing
NoCall == [op |-> "none"]
NoResp == [status |-> 0]

Idle(t) == pc[t] = "idle"

\* ===================================================================== token
\* get_kopokopo_access_token, views.py:560-602

EmptyCache == [token |-> None, expires_at |-> None]

\* the values a token response may declare for expires_in
ExpiresInValues == {90, 120}

\* what the gateway may answer to a token request
TokenOutcomes ==
    [kind : {"ok"}, expires_in : {Some(e) : e \in ExpiresInValues} \cup {None}]
        \cup {[kind |-> k, expires_in |-> None] : k \in {"no_token", "http_error", "exception"}}

\* views.py:565, the first conjunct of the cache test
CacheTokenTruthy(cache) == IsSome(cache.token)

\* views.py:566-567, the second and third conjunct of the cache test
CacheNotExpired(cache, utcnow) == IsSome(cache.expires_at) /\ Get(cache.expires_at) > utcnow

\* views.py:593, data.get("expires_in", 3600)
ExpiresIn(response) ==
    IF IsSome(response.expires_in) THEN Get(response.expires_in) ELSE DefaultExpiresIn

\* views.py:597, the expiry stored beside the token
CachedExpiry(utcnow, expires_in) == utcnow + (expires_in - SafetyMargin)

TokenCallStart == [op |-> "get_kopokopo_access_token", tokReqs |-> 0, payReqs |-> 0,
                   fromCache |-> FALSE, staleAtStart |-> FALSE, overlapped |-> {},
                   got |-> None, utcnow |-> None, outcome |-> "none"]

\* a call of get_kopokopo_access_token begins
StartGetToken(t) ==
    /\ Idle(t)
    /\ pc' = [pc EXCEPT ![t] = "tok_565"]
    /\ req' = [req EXCEPT ![t] = [op |-> "get_kopokopo_access_token"]]
    /\ local' = [local EXCEPT ![t] = [response |-> None, token |-> None]]
    /\ resp' = [resp EXCEPT ![t] = NoResp]
    /\ call' = [u \in Threads |->
                 IF u = t
                 THEN [TokenCallStart EXCEPT
                          !.staleAtStart = ~(CacheTokenTruthy(kopokopo_token_cache)
                                             /\ CacheNotExpired(kopokopo_token_cache, now)),
                          !.overlapped = {v \in Threads \ {t} : ~Idle(v)}]
                 ELSE IF call[u].op = "get_kopokopo_access_token"
                      THEN [call[u] EXCEPT !.overlapped =
                               IF Idle(u) THEN @ \ {t} ELSE @ \cup {t}]
                      ELSE call[u]]
    /\ UNCHANGED <<now, gatewayVars, storeVars>>

\* views.py:565
Tok565(t) ==
    /\ pc[t] = "tok_565"
    /\ pc' = [pc EXCEPT ![t] = IF CacheTokenTruthy(kopokopo_token_cache)
                               THEN "tok_566" ELSE "tok_587"]
    /\ UNCHANGED <<now, gatewayVars, storeVars, req, local, resp, call>>

\* views.py:566-567
Tok566(t) ==
    /\ pc[t] = "tok_566"
    /\ pc' = [pc EXCEPT ![t] = IF CacheNotExpired(kopokopo_token_cache, now)
                               THEN "tok_569" ELSE "tok_587"]
    /\ call' = [call EXCEPT ![t].utcnow = Some(now)]
    /\ UNCHANGED <<now, gatewayVars, storeVars, req, local, resp>>

\* views.py:569, the cached token is read again and returned
Tok569(t) ==
    /\ pc[t] = "tok_569"
    /\ pc' = [pc EXCEPT ![t] = "idle"]
    /\ resp' = [resp EXCEPT ![t] = [status |-> 0, ret |-> kopokopo_token_cache.token]]
    /\ call' = [call EXCEPT ![t].fromCache = TRUE]
    /\ local' = [local EXCEPT ![t] = NoCall]
    /\ UNCHANGED <<now, gatewayVars, storeVars, req>>

\* views.py:587, requests.post leaves the process (no timeout is passed)
Tok587(t) ==
    /\ pc[t] = "tok_587"
    /\ tokenRequests < MaxTokenRequests
    /\ tokenRequests' = tokenRequests + 1
    /\ pc' = [pc EXCEPT ![t] = "tok_wait"]
    /\ call' = [call EXCEPT ![t].tokReqs = @ + 1]
    /\ UNCHANGED <<now, kopokopo_token_cache, issuedTokens, paymentRequests,
                   storeVars, req, local, resp>>

\* the gateway answers the token request of thread t
GatewayTokenRespond(t) ==
    /\ pc[t] = "tok_wait"
    /\ \E out \in TokenOutcomes :
          /\ issuedTokens' = IF out.kind = "ok"
                             THEN Append(issuedTokens, [at |-> now, expires_in |-> out.expires_in,
                                                        received |-> None])
                             ELSE issuedTokens
          /\ local' = [local EXCEPT ![t] =
                         [response |-> Some(out),
                          token |-> IF out.kind = "ok" THEN Some(Len(issuedTokens) + 1)
                                    ELSE None]]
    /\ pc' = [pc EXCEPT ![t] = "tok_589"]
    /\ UNCHANGED <<now, kopokopo_token_cache, tokenRequests, paymentRequests,
                   storeVars, req, resp, call>>

\* an error status answered by sending the token request once more
Tok589Retries(t) ==
    /\ pc[t] = "tok_589"
    /\ LET out == Get(local[t].response) IN
       IF out.kind = "http_error"
       THEN /\ pc' = [pc EXCEPT ![t] = "tok_587"]
            /\ UNCHANGED <<resp, local, kopokopo_token_cache>>
       ELSE IF out.kind = "exception"
       THEN /\ pc' = [pc EXCEPT ![t] = "idle"]
            /\ resp' = [resp EXCEPT ![t] = [status |-> 0, ret |-> None]]
            /\ local' = [local EXCEPT ![t] = NoCall]
            /\ UNCHANGED kopokopo_token_cache
       ELSE /\ kopokopo_token_cache' = [kopokopo_token_cache EXCEPT !.token = local[t].token]
            /\ pc' = [pc EXCEPT ![t] = "tok_597"]
            /\ UNCHANGED <<resp, local>>
    /\ call' = [call EXCEPT ![t].got = local[t].token,
                            ![t].outcome = Get(local[t].response).kind]
    /\ UNCHANGED <<now, issuedTokens, tokenRequests, paymentRequests, storeVars, req>>

\* views.py:589-596 and 600-602: an error or an exception returns None;
\* otherwise the token the response carries (None when it carries none) is cached
Tok589(t) ==
    /\ pc[t] = "tok_589"
    /\ LET out == Get(local[t].response) IN
       IF out.kind \in {"http_error", "exception"}
       THEN /\ pc' = [pc EXCEPT ![t] = "idle"]
            /\ resp' = [resp EXCEPT ![t] = [status |-> 0, ret |-> None]]
            /\ local' = [local EXCEPT ![t] = NoCall]
            /\ UNCHANGED kopokopo_token_cache
       ELSE /\ kopokopo_token_cache' = [kopokopo_token_cache EXCEPT !.token = local[t].token]
            /\ pc' = [pc EXCEPT ![t] = "tok_597"]
            /\ UNCHANGED <<resp, local>>
    /\ call' = [call EXCEPT ![t].got = local[t].token,
                            ![t].outcome = Get(local[t].response).kind]
    /\ UNCHANGED <<now, issuedTokens, tokenRequests, paymentRequests, storeVars, req>>

\* the return of whatever token the cache holds by then
Tok597ReturnsCached(t) ==
    /\ pc[t] = "tok_597"
    /\ kopokopo_token_cache' =
          [kopokopo_token_cache EXCEPT
              !.expires_at = Some(CachedExpiry(now, ExpiresIn(Get(local[t].response))))]
    /\ pc' = [pc EXCEPT ![t] = "idle"]
    /\ resp' = [resp EXCEPT ![t] = [status |-> 0, ret |-> kopokopo_token_cache.token]]
    /\ issuedTokens' = IF IsSome(local[t].token)
                       THEN [issuedTokens EXCEPT ![Get(local[t].token)].received = Some(now)]
                       ELSE issuedTokens
    /\ local' = [local EXCEPT ![t] = NoCall]
    /\ UNCHANGED <<now, tokenRequests, paymentRequests, storeVars, req, call>>

\* views.py:597-599
Tok597(t) ==
    /\ pc[t] = "tok_597"
    /\ kopokopo_token_cache' =
          [kopokopo_token_cache EXCEPT
              !.expires_at = Some(CachedExpiry(now, ExpiresIn(Get(local[t].response))))]
    /\ pc' = [pc EXCEPT ![t] = "idle"]
    /\ resp' = [resp EXCEPT ![t] = [status |-> 0, ret |-> local[t].token]]
    /\ issuedTokens' = IF IsSome(local[t].token)
                       THEN [issuedTokens EXCEPT ![Get(local[t].token)].received = Some(now)]
                       ELSE issuedTokens
    /\ local' = [local EXCEPT ![t] = NoCall]
    /\ UNCHANGED <<now, tokenRequests, paymentRequests, storeVars, req, call>>

get_kopokopo_access_token(t) ==
    \/ Tok565(t)
    \/ Tok566(t)
    \/ Tok569(t)
    \/ Tok587(t)
    \/ GatewayTokenRespond(t)
    \/ Tok589(t)
    \/ Tok597(t)

\* =================================================================== payment
\* the text str() gives for a missing value
NoneText == <<"N", "o", "n", "e">>

\* str(x) of a request value that is a string, or is missing (views.py:608, 631)
Str(x) == IF IsSome(x) THEN Get(x) ELSE NoneText

\* the last branch taken for every text that is neither national nor local
normalize_phone_always_prefixes(raw) ==
    LET phone == Strip(Str(raw)) IN
    IF StartsWith(phone, <<"2", "5", "4">>) THEN <<"+">> \o phone
    ELSE IF StartsWith(phone, <<"0">>) THEN <<"+", "2", "5", "4">> \o Tail(phone)
    ELSE <<"+", "2", "5", "4">> \o phone

\* the local form's leading zero kept
normalize_phone_keeps_zero(raw) ==
    LET phone == Strip(Str(raw)) IN
    IF StartsWith(phone, <<"2", "5", "4">>) THEN <<"+">> \o phone
    ELSE IF StartsWith(phone, <<"0">>) THEN <<"+", "2", "5", "4">> \o phone
    ELSE IF ~StartsWith(phone, <<"+", "2", "5", "4">>) THEN <<"+", "2", "5", "4">> \o phone
    ELSE phone

\* normalize_phone, views.py:604-615
normalize_phone(raw) ==
    LET phone == Strip(Str(raw)) IN
    IF StartsWith(phone, <<"2", "5", "4">>) THEN <<"+">> \o phone
    ELSE IF StartsWith(phone, <<"0">>) THEN <<"+", "2", "5", "4">> \o Tail(phone)
    ELSE IF ~StartsWith(phone, <<"+", "2", "5", "4">>) THEN <<"+", "2", "5", "4">> \o phone
    ELSE phone

\* views.py:631, re.sub(r"[^\d.]", "", s): only digits and dots are kept
CleanAmount(s) == SelectSeq(s, LAMBDA c : c \in Digits \cup {"."})

\* the position of the first dot of s, or Len(s) + 1
RECURSIVE DotIndex(_)
DotIndex(s) == IF s = <<>> \/ Head(s) = "." THEN 1 ELSE 1 + DotIndex(Tail(s))

\* the number a string of digits denotes
RECURSIVE DecimalValue(_)
DecimalValue(s) ==
    IF s = <<>> THEN 0
    ELSE 10 * DecimalValue(SubSeq(s, 1, Len(s) - 1)) + DigitValue(s[Len(s)])

\* float() takes a text of digits and dots when it holds at most one dot and
\* at least one digit (views.py:633)
FloatParses(s) ==
    /\ \E i \in 1..Len(s) : s[i] \in Digits
    /\ Cardinality({i \in 1..Len(s) : s[i] = "."}) <= 1

\* views.py:633, int(float(s)): the digits before the dot
IntOfFloat(s) == DecimalValue(SubSeq(s, 1, DotIndex(s) - 1))

\* views.py:626-635: the amount sent on, or the 400 that ends the request
\* (an absent amount is "Amount is required", an unparsable one "Invalid amount")
ParseAmount(raw_amount) ==
    IF ~IsSome(raw_amount) THEN [ok |-> FALSE, error |-> "Amount is required"]
    ELSE LET clean_amount_str == CleanAmount(Str(raw_amount)) IN
         IF FloatParses(clean_amount_str)
         THEN [ok |-> TRUE, amount |-> IntOfFloat(clean_amount_str)]
         ELSE [ok |-> FALSE, error |-> "Invalid amount"]

\* views.py:641, "if not phone": an empty text
PhoneMissing(phone) == phone = <<>>

\* str(e) of the exceptions the SDK's calls may raise (views.py:679-681)
ExceptionTexts == {"timed out", "connection refused"}

PayCallStart == [op |-> "initiate_payment", tokReqs |-> 0, payReqs |-> 0, raised |-> None]

\* initiate_payment begins: views.py:622-642, everything before the gateway
StartInitiatePayment(t, phones, amounts) ==
    /\ Idle(t)
    /\ \E raw_phone \in phones, raw_amount \in amounts :
          LET phone == normalize_phone(raw_phone)
              parsed == ParseAmount(raw_amount)
          IN
          /\ req' = [req EXCEPT ![t] = [op |-> "initiate_payment", phone |-> raw_phone,
                                        amount |-> raw_amount]]
          /\ call' = [call EXCEPT ![t] = PayCallStart]
          /\ IF ~parsed.ok
             THEN /\ pc' = [pc EXCEPT ![t] = "idle"]
                  /\ resp' = [resp EXCEPT ![t] = [status |-> 400, error |-> parsed.error]]
                  /\ local' = [local EXCEPT ![t] = NoCall]
             ELSE IF PhoneMissing(phone)
             THEN /\ pc' = [pc EXCEPT ![t] = "idle"]
                  /\ resp' = [resp EXCEPT ![t] = [status |-> 400, error |-> "Phone is required"]]
                  /\ local' = [local EXCEPT ![t] = NoCall]
             ELSE /\ pc' = [pc EXCEPT ![t] = "pay_645"]
                  /\ resp' = [resp EXCEPT ![t] = NoResp]
                  /\ local' = [local EXCEPT ![t] = [phone |-> phone, amount |-> parsed.amount,
                                                    access_token |-> None]]
    /\ UNCHANGED <<now, gatewayVars, storeVars>>

\* views.py:679-681, the outer handler: the exception's own text is the body
ExceptionResponse(e) == [status |-> 500, error |-> e]

\* views.py:645, the SDK's token request leaves the process; the token cache
\* of views.py:558 is not consulted
Pay645(t) ==
    /\ pc[t] = "pay_645"
    /\ tokenRequests < MaxTokenRequests
    /\ tokenRequests' = tokenRequests + 1
    /\ call' = [call EXCEPT ![t].tokReqs = @ + 1]
    /\ pc' = [pc EXCEPT ![t] = "pay_wait_token"]
    /\ UNCHANGED <<now, kopokopo_token_cache, issuedTokens, paymentRequests,
                   storeVars, req, local, resp>>

\* the gateway answers the SDK's token request; views.py:645-649 and 679-681:
\* an exception is a 500 with the exception's text, no token is a 500
GatewayPayTokenRespond(t) ==
    /\ pc[t] = "pay_wait_token"
    /\ \E kind \in {"ok", "no_token", "exception"}, e \in ExceptionTexts :
          CASE kind = "ok" ->
                  /\ issuedTokens' = Append(issuedTokens,
                        [at |-> now, expires_in |-> Some(DefaultExpiresIn), received |-> None])
                  /\ local' = [local EXCEPT ![t].access_token = Some(Len(issuedTokens) + 1)]
                  /\ pc' = [pc EXCEPT ![t] = "pay_670"]
                  /\ UNCHANGED <<resp, call>>
            [] kind = "no_token" ->
                  /\ pc' = [pc EXCEPT ![t] = "idle"]
                  /\ resp' = [resp EXCEPT ![t] =
                                [status |-> 500, error |-> "Failed to fetch access token"]]
                  /\ local' = [local EXCEPT ![t] = NoCall]
                  /\ UNCHANGED <<issuedTokens, call>>
            [] kind = "exception" ->
                  /\ pc' = [pc EXCEPT ![t] = "idle"]
                  /\ resp' = [resp EXCEPT ![t] = ExceptionResponse(e)]
                  /\ call' = [call EXCEPT ![t].raised = Some(e)]
                  /\ local' = [local EXCEPT ![t] = NoCall]
                  /\ UNCHANGED issuedTokens
    /\ UNCHANGED <<now, kopokopo_token_cache, tokenRequests, paymentRequests,
                   storeVars, req>>

\* views.py:670, the payment request leaves the process
Pay670(t) ==
    /\ pc[t] = "pay_670"
    /\ paymentRequests' = paymentRequests + 1
    /\ call' = [call EXCEPT ![t].payReqs = @ + 1]
    /\ pc' = [pc EXCEPT ![t] = "pay_wait_payment"]
    /\ UNCHANGED <<now, kopokopo_token_cache, issuedTokens, tokenRequests,
                   storeVars, req, local, resp>>

\* a payment request that, once accepted, marks every order initiated
GatewayPaymentRespondMarksOrders(t) ==
    /\ pc[t] = "pay_wait_payment"
    /\ \E accepted \in BOOLEAN, e \in ExceptionTexts :
          IF accepted
          THEN /\ resp' = [resp EXCEPT ![t] = [status |-> 200, body |-> "initiated"]]
               /\ orders' = [o \in DOMAIN orders |-> [orders[o] EXCEPT !.status = "initiated"]]
               /\ UNCHANGED call
          ELSE /\ resp' = [resp EXCEPT ![t] = ExceptionResponse(e)]
               /\ call' = [call EXCEPT ![t].raised = Some(e)]
               /\ UNCHANGED orders
    /\ pc' = [pc EXCEPT ![t] = "idle"]
    /\ local' = [local EXCEPT ![t] = NoCall]
    /\ UNCHANGED <<now, gatewayVars, products, shippingAddresses, orderItems, req>>

\* the gateway answers the payment request; views.py:670-681
GatewayPaymentRespond(t) ==
    /\ pc[t] = "pay_wait_payment"
    /\ \E accepted \in BOOLEAN, e \in ExceptionTexts :
          IF accepted
          THEN /\ resp' = [resp EXCEPT ![t] = [status |-> 200, body |-> "initiated"]]
               /\ UNCHANGED call
          ELSE /\ resp' = [resp EXCEPT ![t] = ExceptionResponse(e)]
               /\ call' = [call EXCEPT ![t].raised = Some(e)]
    /\ pc' = [pc EXCEPT ![t] = "idle"]
    /\ local' = [local EXCEPT ![t] = NoCall]
    /\ UNCHANGED <<now, gatewayVars, storeVars, req>>

initiate_payment(t) ==
    \/ Pay645(t)
    \/ GatewayPayTokenRespond(t)
    \/ Pay670(t)
    \/ GatewayPaymentRespond(t)

\* ------------------------------------------------------------ request inputs
AmountChars == {"-", "5", "0", ".", "a"}

RECURSIVE Texts(_, _)
Texts(chars, n) ==
    IF n = 0 THEN {<<>>}
    ELSE LET shorter == Texts(chars, n - 1) IN
         shorter \cup {Append(s, c) : s \in shorter, c \in chars}

AmountInputs == {None} \cup {Some(s) : s \in Texts(AmountChars, MaxAmountLen)}

Local8 == <<"1", "2", "3", "4", "5", "6", "7", "8">>

PhoneInputs ==
    { None,
      Some(<<"+", "2", "5", "4", "7">> \o Local8),
      Some(<<"2", "5", "4", "7">> \o Local8),
      Some(<<"0", "7">> \o Local8),
      Some(<<" ", "0", "7">> \o Local8 \o <<" ">>),
      Some(<<"7">> \o Local8),
      Some(<<"+", "2", "5", "4", "7">> \o SubSeq(Local8, 1, 7)),
      Some(<<"+", "2", "5", "4", "1">> \o Local8),
      Some(<<>>),
      Some(<<"a", "b", "c">>) }

\* ---- normalize_phone on its own
PhoneChars == {"0", "2", "5", "4", "+", "7", " "}

\* the digits after +2547 (views.py:606)
PhoneSuffixLen == 8
SuffixDigits == {"0", "5"}
PhoneSuffixes == [1..PhoneSuffixLen -> SuffixDigits]

LocalForm(d) == <<"0", "7">> \o d
NationalForm(d) == <<"2", "5", "4", "7">> \o d
PrefixedForm(d) == <<"+", "2", "5", "4", "7">> \o d

PhoneTexts ==
    Texts(PhoneChars, MaxPhoneLen)
        \cup {LocalForm(d) : d \in PhoneSuffixes}
        \cup {NationalForm(d) : d \in PhoneSuffixes}
        \cup {PrefixedForm(d) : d \in PhoneSuffixes}

\* normalize_phone(x) for a text x, by a thread that has served nothing yet
NormalizeOnce(t) ==
    /\ Idle(t)
    /\ req[t] = NoCall
    /\ \E x \in PhoneTexts :
          /\ req' = [req EXCEPT ![t] = [op |-> "normalize_phone", raw |-> x]]
          /\ resp' = [resp EXCEPT ![t] = [status |-> 0, ret |-> normalize_phone(Some(x))]]
          /\ call' = [call EXCEPT ![t] = [op |-> "normalize_phone", applied |-> 1,
                                          first |-> normalize_phone(Some(x))]]
    /\ UNCHANGED <<now, gatewayVars, storeVars, pc, local>>

\* normalize_phone applied to what it returned
NormalizeAgain(t) ==
    /\ Idle(t)
    /\ call[t].op = "normalize_phone"
    /\ call[t].applied = 1
    /\ resp' = [resp EXCEPT ![t].ret = normalize_phone(Some(resp[t].ret))]
    /\ call' = [call EXCEPT ![t].applied = 2]
    /\ UNCHANGED <<now, gatewayVars, storeVars, pc, local, req>>

\* ==================================================================== orders
\* ---- identifiers
LowerHex(c) ==
    CASE c = "A" -> "a" [] c = "B" -> "b" [] c = "C" -> "c" [] c = "D" -> "d"
      [] c = "E" -> "e" [] c = "F" -> "f" [] OTHER -> c

\* bytes.fromhex, by which bson.ObjectId decodes a text: pairs of hexadecimal
\* digits, blanks before a pair and at the end skipped; the bytes as their
\* lower-case digits, or None where ValueError is raised
RECURSIVE FromHex(_)
FromHex(s) ==
    LET rest == LStrip(s) IN
    IF rest = <<>> THEN Some(<<>>)
    ELSE IF Len(rest) >= 2 /\ rest[1] \in HexDigits /\ rest[2] \in HexDigits
    THEN LET more == FromHex(SubSeq(rest, 3, Len(rest))) IN
         IF IsSome(more)
         THEN Some(<<LowerHex(rest[1]), LowerHex(rest[2])>> \o Get(more))
         ELSE None
    ELSE None

\* bson.ObjectId(text), used at views.py:430, fields.py:19 and by
\* ObjectIdAutoField lookups (views.py:402): a text of 24 characters that
\* bytes.fromhex decodes, anything else raises
ObjectIdValid(s) == Len(s) = ObjectIdHexLen /\ IsSome(FromHex(s))

RECURSIVE StripBraces(_)
StripBraces(s) ==
    IF s # <<>> /\ Head(s) \in {"{", "}"} THEN StripBraces(Tail(s))
    ELSE IF s # <<>> /\ s[Len(s)] \in {"{", "}"} THEN StripBraces(SubSeq(s, 1, Len(s) - 1))
    ELSE s

\* uuid.UUID(hex=text) as UUIDField.to_python calls it for Order.id
\* (models.py:116): braces stripped, dashes removed, then 32 hexadecimal digits
UUIDHexOf(s) == SelectSeq(StripBraces(s), LAMBDA c : c # "-")
UUIDValid(s) == Len(UUIDHexOf(s)) = UUIDHexLen /\ AllIn(UUIDHexOf(s), HexDigits)
UUIDParse(s) == [i \in 1..UUIDHexLen |-> LowerHex(UUIDHexOf(s)[i])]

\* str(order.id), views.py:411: the dashed form 8-4-4-4-12
UUIDText(u) ==
    SubSeq(u, 1, 8) \o <<"-">> \o SubSeq(u, 9, 12) \o <<"-">> \o SubSeq(u, 13, 16)
        \o <<"-">> \o SubSeq(u, 17, 20) \o <<"-">> \o SubSeq(u, 21, 32)

\* the values uuid.uuid4 may draw (models.py:116)
UUIDSeeds == <<"a", "b", "c", "d">>
OrderIdPool == {Rep(UUIDSeeds[i], UUIDHexLen) : i \in 1..MaxOrders}

\* an id computed from the order's content: the same for identical orders
ContentOrderIds(used) == {Rep(UUIDSeeds[1], UUIDHexLen)}

\* uuid.uuid4() (models.py:116): a value no order has yet; which one is of no
\* consequence, so the first unused one stands for all
FreshOrderIds(used) ==
    LET free == {i \in 1..Len(UUIDSeeds) : Rep(UUIDSeeds[i], UUIDHexLen) \notin used} IN
    {Rep(UUIDSeeds[i], UUIDHexLen) : i \in {j \in free : \A k \in free : j <= k}}

\* ---- the catalog
ProductA == Rep("a", ObjectIdHexLen)
ProductB == Rep("b", ObjectIdHexLen)
ProductIds == {ProductA, ProductB}
Prices == {100, 150}
Catalog0 == [p \in ProductIds |-> Some(100)]

\* an update that carries the new price into the items sold
ProductUpdateRepricesItems(p, price) ==
    /\ IsSome(products[p])
    /\ Get(products[p]) # price
    /\ products' = [products EXCEPT ![p] = Some(price)]
    /\ orderItems' = [i \in 1..Len(orderItems) |->
                        IF orderItems[i].product = Some(p)
                        THEN [orderItems[i] EXCEPT !.price = price]
                        ELSE orderItems[i]]
    /\ UNCHANGED <<now, gatewayVars, shippingAddresses, orders,
                   pc, req, local, resp, call>>

\* ProductView (views.py:202-226) destroy: the product goes, and every
\* OrderItem that named it keeps its row with product set to null
\* (models.py:143, on_delete=SET_NULL)
ProductDelete(p) ==
    /\ IsSome(products[p])
    /\ products' = [products EXCEPT ![p] = None]
    /\ orderItems' = [i \in 1..Len(orderItems) |->
                        IF orderItems[i].product = Some(p)
                        THEN [orderItems[i] EXCEPT !.product = None]
                        ELSE orderItems[i]]
    /\ UNCHANGED <<now, gatewayVars, shippingAddresses, orders,
                   pc, req, local, resp, call>>

\* ProductView (views.py:202-226) update: a product's price changes
ProductUpdate(p, price) ==
    /\ IsSome(products[p])
    /\ Get(products[p]) # price
    /\ products' = [products EXCEPT ![p] = Some(price)]
    /\ UNCHANGED <<now, gatewayVars, shippingAddresses, orders, orderItems,
                   pc, req, local, resp, call>>

\* ---- lookups
\* Order.objects.get(id=text), views.py:434 and 458: the text is converted by
\* UUIDField first; "invalid" is the ValidationError that conversion raises
OrderGet(id_text) ==
    IF ~UUIDValid(id_text) THEN "invalid"
    ELSE IF UUIDParse(id_text) \in DOMAIN orders THEN "found"
    ELSE "missing"

\* views.py:428-434: ObjectId(order_id) either raises or gives a value that
\* UUIDField refuses, so the bare except always falls through to the lookup
\* by the text itself
GetOrderStatusLookup(order_id) == OrderGet(order_id)

\* get_order_status, views.py:425-445
GetOrderStatusResponse(order_id) ==
    LET found == GetOrderStatusLookup(order_id) IN
    CASE found = "found" -> [status |-> 200, body |-> "order"]
      [] found = "missing" -> [status |-> 404, detail |-> "Order not found"]
      [] found = "invalid" -> [status |-> 500, detail |-> "Internal server error"]

\* invoice_pdf_view, views.py:457-468: get_object_or_404 turns only
\* DoesNotExist into a 404; the conversion error reaches the framework
InvoiceResponse(order_id) ==
    LET found == OrderGet(order_id) IN
    CASE found = "found" -> [status |-> 200, body |-> "pdf"]
      [] found = "missing" -> [status |-> 404, detail |-> "Not Found"]
      [] found = "invalid" -> [status |-> 500, detail |-> "Server Error"]

get_order_status(t, ids) ==
    /\ Idle(t)
    /\ \E order_id \in ids :
          /\ req' = [req EXCEPT ![t] = [op |-> "get_order_status", order_id |-> order_id]]
          /\ resp' = [resp EXCEPT ![t] = GetOrderStatusResponse(order_id)]
          /\ call' = [call EXCEPT ![t] =
                        [op |-> "get_order_status",
                         existed |-> UUIDValid(order_id) /\ UUIDParse(order_id) \in DOMAIN orders]]
    /\ local' = [local EXCEPT ![t] = NoCall]
    /\ UNCHANGED <<now, gatewayVars, storeVars, pc>>

invoice_pdf_view(t, ids) ==
    /\ Idle(t)
    /\ \E order_id \in ids :
          /\ req' = [req EXCEPT ![t] = [op |-> "invoice_pdf_view", order_id |-> order_id]]
          /\ resp' = [resp EXCEPT ![t] = InvoiceResponse(order_id)]
          /\ call' = [call EXCEPT ![t] =
                        [op |-> "invoice_pdf_view",
                         existed |-> UUIDValid(order_id) /\ UUIDParse(order_id) \in DOMAIN orders]]
    /\ local' = [local EXCEPT ![t] = NoCall]
    /\ UNCHANGED <<now, gatewayVars, storeVars, pc>>

\* ---- create_order, views.py:371-420
RequiredFields == {"shippingAddress", "cartItems", "totalPrice"}

\* views.py:377
MissingRequired(data) == \E f \in RequiredFields : ~IsSome(data[f])

\* views.py:415-420, every exception becomes this response
InternalError == [status |-> 500, detail |-> "Internal server error"]

\* the status taken to be "initiated" from the start
NewOrderInitiated(user, shipping_address, totalPrice) ==
    [guest_user |-> user, shipping_address |-> shipping_address,
     total_price |-> totalPrice, status |-> "initiated"]

\* views.py:393-398
NewOrder(user, shipping_address, totalPrice) ==
    [guest_user |-> user, shipping_address |-> shipping_address,
     total_price |-> totalPrice, status |-> "pending"]

\* the price the client sent with the line is trusted
NewOrderItemClientPrice(order, product_id, product_price, item) ==
    [order |-> order, product |-> Some(product_id),
     quantity |-> IF IsSome(item.quantity) THEN Get(item.quantity) ELSE 1,
     price |-> item.price]

\* the item hung on whichever order the store holds, not on the call's own
NewOrderItemAnyOrder(order, product_id, product_price, item) ==
    [order |-> CHOOSE o \in DOMAIN orders : TRUE, product |-> Some(product_id),
     quantity |-> IF IsSome(item.quantity) THEN Get(item.quantity) ELSE 1,
     price |-> product_price]

\* views.py:403-408; a line without quantity counts 1 (views.py:406)
NewOrderItem(order, product_id, product_price, item) ==
    [order |-> order, product |-> Some(product_id),
     quantity |-> IF IsSome(item.quantity) THEN Get(item.quantity) ELSE 1,
     price |-> product_price]

\* get_object_or_404(Product, id=...), views.py:402: "invalid" for a text that
\* is no ObjectId, "missing" for an id without a product
ProductGet(id_text) ==
    IF ~ObjectIdValid(id_text) THEN "invalid"
    ELSE IF id_text \in DOMAIN products /\ IsSome(products[id_text]) THEN "found"
    ELSE "missing"

\* a handler that deletes the items of the failed order
OnOrderExceptionDeleteItems(items, order) == SelectSeq(items, LAMBDA it : it.order # order)

\* views.py:415-420: the handler of the exception leaves what was written
OnOrderException(items, order) == items

OrderCallStart == [op |-> "create_order", tokReqs |-> 0, payReqs |-> 0,
                   writes |-> <<>>, created |-> {}, failedAt |-> 0, seen |-> <<>>]

CreateOrderFails(t, line) ==
    /\ pc' = [pc EXCEPT ![t] = "idle"]
    /\ resp' = [resp EXCEPT ![t] = InternalError]
    /\ local' = [local EXCEPT ![t] = NoCall]
    /\ call' = [call EXCEPT ![t].failedAt = line]

\* the address written before its validation is looked at
StartCreateOrderSavesFirst(t, inputs) ==
    /\ Idle(t)
    /\ Len(shippingAddresses) < MaxOrders
    /\ \E data \in inputs :
          /\ req' = [req EXCEPT ![t] = [op |-> "create_order", data |-> data, user |-> "u1"]]
          /\ call' = [call EXCEPT ![t] = OrderCallStart]
          /\ IF MissingRequired(data)
             THEN /\ pc' = [pc EXCEPT ![t] = "idle"]
                  /\ resp' = [resp EXCEPT ![t] =
                                [status |-> 400, detail |-> "Missing required fields"]]
                  /\ local' = [local EXCEPT ![t] = NoCall]
                  /\ UNCHANGED shippingAddresses
             ELSE IF Get(data.shippingAddress) # "valid"
             THEN /\ pc' = [pc EXCEPT ![t] = "idle"]
                  /\ resp' = [resp EXCEPT ![t] =
                                [status |-> 400, detail |-> "Invalid shipping address"]]
                  /\ local' = [local EXCEPT ![t] = NoCall]
                  /\ shippingAddresses' = Append(shippingAddresses, [guest_user |-> None])
             ELSE /\ pc' = [pc EXCEPT ![t] = "ord_391"]
                  /\ resp' = [resp EXCEPT ![t] = NoResp]
                  /\ local' = [local EXCEPT ![t] = NoCall]
                  /\ UNCHANGED shippingAddresses
    /\ UNCHANGED <<now, gatewayVars, products, orders, orderItems>>

\* views.py:373-389, while fewer than limit addresses are stored
StartCreateOrderUpTo(t, inputs, limit) ==
    /\ Idle(t)
    /\ Len(shippingAddresses) < limit
    /\ \E data \in inputs :
          /\ req' = [req EXCEPT ![t] = [op |-> "create_order", data |-> data, user |-> "u1"]]
          /\ call' = [call EXCEPT ![t] = OrderCallStart]
          /\ IF MissingRequired(data)
             THEN /\ pc' = [pc EXCEPT ![t] = "idle"]
                  /\ resp' = [resp EXCEPT ![t] =
                                [status |-> 400, detail |-> "Missing required fields"]]
                  /\ local' = [local EXCEPT ![t] = NoCall]
             ELSE IF Get(data.shippingAddress) # "valid"
             THEN /\ pc' = [pc EXCEPT ![t] = "idle"]
                  /\ resp' = [resp EXCEPT ![t] =
                                [status |-> 400, detail |-> "Invalid shipping address"]]
                  /\ local' = [local EXCEPT ![t] = NoCall]
             ELSE /\ pc' = [pc EXCEPT ![t] = "ord_391"]
                  /\ resp' = [resp EXCEPT ![t] = NoResp]
                  /\ local' = [local EXCEPT ![t] = NoCall]
    /\ UNCHANGED <<now, gatewayVars, storeVars>>

StartCreateOrder(t, inputs) == StartCreateOrderUpTo(t, inputs, MaxOrders)

\* views.py:391, the shipping address is written; the store may refuse
Ord391(t) ==
    /\ pc[t] = "ord_391"
    /\ \E stored \in BOOLEAN :
          IF stored
          THEN /\ shippingAddresses' = Append(shippingAddresses, [guest_user |-> None])
               /\ local' = [local EXCEPT ![t] =
                              [shipping_address |-> Len(shippingAddresses) + 1]]
               /\ call' = [call EXCEPT ![t].writes = Append(@, "address")]
               /\ pc' = [pc EXCEPT ![t] = "ord_393"]
               /\ UNCHANGED resp
          ELSE /\ CreateOrderFails(t, 0)
               /\ UNCHANGED shippingAddresses
    /\ UNCHANGED <<now, gatewayVars, products, orders, orderItems, req>>

\* views.py:393-398, the order header is written under a fresh uuid4; a total
\* that is no decimal, or the store refusing, raises.  With an empty cart the
\* loop of views.py:401 has nothing to do and the 201 follows.
Ord393(t) ==
    /\ pc[t] = "ord_393"
    /\ LET data == req[t].data
           totalPrice == Get(data.totalPrice)
           cart == Get(data.cartItems)
       IN
       \E stored \in BOOLEAN, id \in FreshOrderIds(DOMAIN orders) :
          IF stored /\ totalPrice.number
          THEN /\ orders' = [o \in DOMAIN orders \cup {id} |->
                               IF o = id
                               THEN NewOrder(req[t].user, local[t].shipping_address,
                                             totalPrice.value)
                               ELSE orders[o]]
               /\ call' = [call EXCEPT ![t].writes = Append(@, "order"),
                                       ![t].created = @ \cup {id}]
               /\ IF cart = <<>>
                  THEN /\ pc' = [pc EXCEPT ![t] = "idle"]
                       /\ resp' = [resp EXCEPT ![t] = [status |-> 201, orderId |-> UUIDText(id)]]
                       /\ local' = [local EXCEPT ![t] = NoCall]
                  ELSE /\ pc' = [pc EXCEPT ![t] = "ord_402"]
                       /\ local' = [local EXCEPT ![t] = [order |-> id, line |-> 1]]
                       /\ UNCHANGED resp
          ELSE /\ CreateOrderFails(t, 0)
               /\ UNCHANGED orders
    /\ UNCHANGED <<now, gatewayVars, products, shippingAddresses, orderItems, req>>

\* views.py:402, the product of the current line is fetched
Ord402(t) ==
    /\ pc[t] = "ord_402"
    /\ LET item == Get(req[t].data.cartItems)[local[t].line]
           found == ProductGet(item.id)
       IN
       IF found = "found"
       THEN /\ pc' = [pc EXCEPT ![t] = "ord_403"]
            /\ local' = [local EXCEPT ![t] =
                           [order |-> @.order, line |-> @.line,
                            product |-> [id |-> item.id, price |-> Get(products[item.id])]]]
            /\ call' = [call EXCEPT ![t].seen = Append(@, Get(products[item.id]))]
            /\ UNCHANGED <<resp, orderItems>>
       ELSE /\ CreateOrderFails(t, local[t].line)
            /\ orderItems' = OnOrderException(orderItems, local[t].order)
    /\ UNCHANGED <<now, gatewayVars, products, shippingAddresses, orders, req>>

\* views.py:403-413, the item of the current line is written; after the last
\* line the 201 follows
Ord403(t) ==
    /\ pc[t] = "ord_403"
    /\ LET cart == Get(req[t].data.cartItems)
           item == cart[local[t].line]
       IN
       \E stored \in BOOLEAN :
          IF stored
          THEN /\ orderItems' = Append(orderItems,
                     NewOrderItem(local[t].order, local[t].product.id,
                                  local[t].product.price, item))
               /\ call' = [call EXCEPT ![t].writes = Append(@, "item")]
               /\ IF local[t].line = Len(cart)
                  THEN /\ pc' = [pc EXCEPT ![t] = "idle"]
                       /\ resp' = [resp EXCEPT ![t] =
                                     [status |-> 201, orderId |-> UUIDText(local[t].order)]]
                       /\ local' = [local EXCEPT ![t] = NoCall]
                  ELSE /\ pc' = [pc EXCEPT ![t] = "ord_402"]
                       /\ local' = [local EXCEPT ![t] =
                                      [order |-> @.order, line |-> @.line + 1]]
                       /\ UNCHANGED resp
          ELSE /\ CreateOrderFails(t, local[t].line)
               /\ orderItems' = OnOrderException(orderItems, local[t].order)
    /\ UNCHANGED <<now, gatewayVars, products, shippingAddresses, orders, req>>

create_order(t) ==
    \/ Ord391(t)
    \/ Ord393(t)
    \/ Ord402(t)
    \/ Ord403(t)

\* ---- the gateway's callback
CallbackMethods == {"POST", "GET"}

\* request.body.decode('utf-8') and json.loads, views.py:691: the bytes must
\* be UTF-8 and the text one JSON value.  Over the characters of CallbackBodies
\* a JSON value is a number (digits, no leading zero), the empty object or the
\* empty array, with blanks allowed around it.
JsonNumber(s) ==
    /\ s # <<>>
    /\ AllIn(s, Digits)
    /\ Len(s) > 1 => Head(s) # "0"

JsonParses(text) ==
    LET value == Strip(text) IN
    \/ JsonNumber(value)
    \/ value = <<"{", "}">>
    \/ value = <<"[", "]">>

BodyIsJson(body) == body.utf8 /\ JsonParses(body.text)

\* the answer to a POST that acknowledges every body, parseable or not
CallbackResponseAcknowledgesAll(method, body_is_json) ==
    IF method # "POST" THEN [status |-> 405, error |-> "Method not allowed"]
    ELSE [status |-> 200, body |-> "success"]

\* kopokopo_callback, views.py:687-704: a POST whose body is JSON is logged
\* and acknowledged, any other method refused, a body that is no JSON
\* answered 400; nothing is stored
CallbackResponse(method, body_is_json) ==
    IF method # "POST" THEN [status |-> 405, error |-> "Method not allowed"]
    ELSE IF body_is_json THEN [status |-> 200, body |-> "success"]
    ELSE [status |-> 400, error |-> "Invalid callback"]

\* the bodies a callback may carry: JSON values, texts that are none, and
\* bytes that are no UTF-8
CallbackBodies ==
    {[utf8 |-> TRUE, text |-> x] :
        x \in {<<"{", "}">>, <<"1", "0">>, <<" ", "[", "]", " ">>, <<>>, <<"{">>,
               <<"0", "1">>, <<"{", "}", "}">>, <<"x">>}}
    \cup {[utf8 |-> FALSE, text |-> <<"{", "}">>]}

\* the callback that marks every order paid
kopokopo_callback_marks_paid(t) ==
    /\ Idle(t)
    /\ \E method \in CallbackMethods, body \in CallbackBodies :
          /\ req' = [req EXCEPT ![t] = [op |-> "kopokopo_callback", method |-> method,
                                        body |-> body]]
          /\ resp' = [resp EXCEPT ![t] = CallbackResponse(method, BodyIsJson(body))]
          /\ orders' = IF method = "POST" /\ BodyIsJson(body)
                       THEN [o \in DOMAIN orders |-> [orders[o] EXCEPT !.status = "paid"]]
                       ELSE orders
    /\ call' = [call EXCEPT ![t] = [op |-> "kopokopo_callback"]]
    /\ UNCHANGED <<now, gatewayVars, products, shippingAddresses, orderItems, pc, local>>

kopokopo_callback(t) ==
    /\ Idle(t)
    /\ \E method \in CallbackMethods, body \in CallbackBodies :
          /\ req' = [req EXCEPT ![t] = [op |-> "kopokopo_callback", method |-> method,
                                        body |-> body]]
          /\ resp' = [resp EXCEPT ![t] = CallbackResponse(method, BodyIsJson(body))]
    /\ call' = [call EXCEPT ![t] = [op |-> "kopokopo_callback"]]
    /\ UNCHANGED <<now, gatewayVars, storeVars, pc, local>>

\* ---- request inputs
UnknownProduct == Rep("0", ObjectIdHexLen)
MalformedId == <<"a", "b", "c">>

\* the price a client may send with a line; the catalog never holds it
ClientPrice == 1

CartLines ==
    { [id |-> ProductA, quantity |-> Some(2), price |-> ClientPrice],
      [id |-> ProductB, quantity |-> None, price |-> ClientPrice],
      [id |-> MalformedId, quantity |-> Some(1), price |-> ClientPrice] }

UnknownLine == [id |-> UnknownProduct, quantity |-> Some(1), price |-> ClientPrice]

RECURSIVE Carts(_)
Carts(n) ==
    IF n = 0 THEN {<<>>}
    ELSE LET shorter == Carts(n - 1) IN
         shorter \cup {Append(c, l) : c \in shorter, l \in CartLines}

Number(n) == [number |-> TRUE, value |-> n]
NotANumber == [number |-> FALSE, value |-> 0]

OneLineCart == <<[id |-> ProductA, quantity |-> Some(2), price |-> ClientPrice]>>

CreateOrderInputs ==
    { [shippingAddress |-> Some("valid"), cartItems |-> Some(c), totalPrice |-> Some(Number(n))] :
          c \in Carts(MaxCartLen), n \in {200} }
    \cup
    { [shippingAddress |-> Some("valid"), cartItems |-> Some(c), totalPrice |-> Some(Number(200))] :
          c \in {<<UnknownLine>>, OneLineCart \o <<UnknownLine>>} }
    \cup
    { [shippingAddress |-> Some("valid"), cartItems |-> Some(OneLineCart),
       totalPrice |-> Some(NotANumber)],
      [shippingAddress |-> Some("invalid"), cartItems |-> Some(OneLineCart),
       totalPrice |-> Some(Number(200))],
      [shippingAddress |-> None, cartItems |-> Some(OneLineCart),
       totalPrice |-> Some(Number(200))],
      [shippingAddress |-> Some("valid"), cartItems |-> None,
       totalPrice |-> Some(Number(200))],
      [shippingAddress |-> Some("valid"), cartItems |-> Some(OneLineCart),
       totalPrice |-> None] }

OrderIdInputs ==
    {Rep("0", ObjectIdHexLen), MalformedId, Rep("0", UUIDHexLen)}
        \cup {UUIDText(u) : u \in OrderIdPool}

\* time passes
Tick ==
    /\ now < MaxTicks * TickSeconds
    /\ now' = now + TickSeconds
    /\ UNCHANGED <<gatewayVars, storeVars, pc, req, local, resp, call>>

\* ================================================================ the system
Init ==
    /\ now = 0
    /\ kopokopo_token_cache = EmptyCache
    /\ issuedTokens = <<>>
    /\ tokenRequests = 0
    /\ paymentRequests = 0
    /\ products = Catalog0
    /\ shippingAddresses = <<>>
    /\ orders = [o \in {} |-> NewOrder("u1", 0, 0)]
    /\ orderItems = <<>>
    /\ pc = [t \in Threads |-> "idle"]
    /\ req = [t \in Threads |-> NoCall]
    /\ local = [t \in Threads |-> NoCall]
    /\ resp = [t \in Threads |-> NoResp]
    /\ call = [t \in Threads |-> NoCall]

NextToken ==
    \/ Tick
    \/ \E t \in Threads : StartGetToken(t)
    \/ \E t \in Threads : get_kopokopo_access_token(t)

SpecToken == Init /\ [][NextToken]_vars

PayThreads == {"t1"}

NextPay ==
    \/ \E t \in PayThreads : StartInitiatePayment(t, PhoneInputs, AmountInputs)
    \/ \E t \in PayThreads : initiate_payment(t)

SpecPay == Init /\ [][NextPay]_vars

OrderThreads == {"t1"}

OrderSpecPhones == {Some(<<"0", "7">> \o Local8)}
OrderSpecAmounts == {Some(<<"5">>)}

NextOrder ==
    \/ \E t \in OrderThreads : StartCreateOrder(t, CreateOrderInputs)
    \/ \E t \in OrderThreads : create_order(t)
    \/ \E t \in OrderThreads : get_order_status(t, OrderIdInputs)
    \/ \E t \in OrderThreads : invoice_pdf_view(t, OrderIdInputs)
    \/ \E price \in Prices : ProductUpdate(ProductA, price)

SpecOrder == Init /\ [][NextOrder]_vars

\* the order's whole life: placed, looked up, paid for
LifecycleInputs ==
    { [shippingAddress |-> Some("valid"), cartItems |-> Some(c),
       totalPrice |-> Some(Number(200))] :
          c \in {<<>>, OneLineCart, <<UnknownLine>>} }

LifecycleThreads == {"t1"}

NextLifecycle ==
    \/ \E t \in LifecycleThreads : StartCreateOrder(t, LifecycleInputs)
    \/ \E t \in LifecycleThreads : create_order(t)
    \/ \E t \in LifecycleThreads : get_order_status(t, {UUIDText(u) : u \in OrderIdPool})
    \/ \E t \in LifecycleThreads : StartInitiatePayment(t, OrderSpecPhones, OrderSpecAmounts)
    \/ \E t \in LifecycleThreads : initiate_payment(t)
    \/ \E t \in LifecycleThreads : kopokopo_callback(t)

SpecLifecycle == Init /\ [][NextLifecycle]_vars

\* two requests fail side by side
ErrorInputs ==
    { [shippingAddress |-> Some("valid"), cartItems |-> Some(c),
       totalPrice |-> Some(Number(200))] :
          c \in {<<UnknownLine>>, OneLineCart,
                 <<[id |-> MalformedId, quantity |-> Some(1), price |-> ClientPrice]>>} }

NextErrors ==
    \/ \E t \in Threads : StartCreateOrder(t, ErrorInputs)
    \/ \E t \in Threads : create_order(t)
    \/ \E t \in Threads : get_order_status(t, {MalformedId, UnknownProduct})
    \/ \E t \in Threads : StartInitiatePayment(t, OrderSpecPhones, OrderSpecAmounts)
    \/ \E t \in Threads : initiate_payment(t)

SpecErrors == Init /\ [][NextErrors]_vars

\* orders are placed while the catalog changes under them
SnapshotThreads == {"t1"}

SnapshotInputs ==
    { [shippingAddress |-> Some("valid"), cartItems |-> Some(c),
       totalPrice |-> Some(Number(200))] :
          c \in {OneLineCart,
                 OneLineCart \o <<[id |-> ProductB, quantity |-> None, price |-> ClientPrice]>>,
                 <<UnknownLine>>} }

NextSnapshot ==
    \/ \E t \in SnapshotThreads : StartCreateOrder(t, SnapshotInputs)
    \/ \E t \in SnapshotThreads : create_order(t)
    \/ \E p \in ProductIds, price \in Prices : ProductUpdate(p, price)
    \/ \E p \in ProductIds : ProductDelete(p)

SpecSnapshot == Init /\ [][NextSnapshot]_vars

\* concurrent token calls within one instant of the clock
NextTokenFailure ==
    \/ \E t \in Threads : StartGetToken(t)
    \/ \E t \in Threads : get_kopokopo_access_token(t)

SpecTokenFailure == Init /\ [][NextTokenFailure]_vars

PhoneThreads == {"t1"}

NextPhone ==
    \/ \E t \in PhoneThreads : NormalizeOnce(t)
    \/ \E t \in PhoneThreads : NormalizeAgain(t)

SpecPhone == Init /\ [][NextPhone]_vars

\* the gateway calls back while tokens are fetched and orders placed
CallbackWorkers == {"t1"}

NextCallback ==
    \/ \E t \in CallbackWorkers : StartGetToken(t)
    \/ \E t \in CallbackWorkers : get_kopokopo_access_token(t)
    \/ \E t \in CallbackWorkers : StartCreateOrder(t, LifecycleInputs)
    \/ \E t \in CallbackWorkers : create_order(t)
    \/ \E t \in Threads : kopokopo_callback(t)

SpecCallback == Init /\ [][NextCallback]_vars

Next == NextToken \/ NextLifecycle \/ NextPay \/ NextOrder

Spec == Init /\ [][Next]_vars

\* ==================================================================== claims

TokenCallDone(t) == Idle(t) /\ call[t].op = "get_kopokopo_access_token"

\* the expiry the gateway declared for token k, counted from the moment the
\* call that obtained k read the clock for it (the latest moment a caller can
\* take for the issue time)
DeclaredExpiry(k) == Get(issuedTokens[k].received) + Get(issuedTokens[k].expires_in)

\* C1: two get_kopokopo_access_token calls that overlap in time and both began
\* with the cache empty or expired send exactly one token request between them
\* (stated for the runs in which the gateway answered every request with a token)
C1_OneRequestForConcurrentCalls ==
    \A t \in Threads : \A u \in Threads \ {t} :
        ( /\ TokenCallDone(t) /\ TokenCallDone(u)
          /\ u \in call[t].overlapped
          /\ call[t].staleAtStart /\ call[u].staleAtStart
          /\ \A x \in {t, u} : call[x].tokReqs > 0 => IsSome(call[x].got) )
        => call[t].tokReqs + call[u].tokReqs = 1

\* C2: a call answers from the cache, sending nothing, only while the clock it
\* read (views.py:567) is more than 60 seconds before the expiry the gateway
\* declared for the token it returns; every other call sends one token request and returns the token of
\* the response
C2_CachedOnlyBeforeMargin ==
    \A t \in Threads :
        TokenCallDone(t) =>
            /\ call[t].fromCache =>
                  /\ call[t].tokReqs = 0
                  /\ ( /\ IsSome(resp[t].ret)
                       /\ IsSome(issuedTokens[Get(resp[t].ret)].expires_in)
                       /\ IsSome(issuedTokens[Get(resp[t].ret)].received) )
                        => Get(call[t].utcnow) + SafetyMargin < DeclaredExpiry(Get(resp[t].ret))
            /\ ~call[t].fromCache =>
                  /\ call[t].tokReqs = 1
                  /\ IsSome(call[t].got) => resp[t].ret = call[t].got

PayCall(t) == call[t].op = "initiate_payment"

\* a text that denotes a number: an optional sign, digits, at most one dot
NumericText(s) ==
    LET body == IF s # <<>> /\ Head(s) = "-" THEN Tail(s) ELSE s IN
    AllIn(body, Digits \cup {"."}) /\ FloatParses(body)

\* an amount that is present, numeric and greater than zero
PositiveAmount(raw_amount) ==
    /\ IsSome(raw_amount)
    /\ NumericText(Get(raw_amount))
    /\ Head(Get(raw_amount)) # "-"
    /\ \E i \in 1..Len(Get(raw_amount)) : Get(raw_amount)[i] \in Digits \ {"0"}

\* +2547 followed by 8 digits
CanonicalPhone(phone) ==
    /\ Len(phone) = 13
    /\ SubSeq(phone, 1, 5) = <<"+", "2", "5", "4", "7">>
    /\ AllIn(SubSeq(phone, 6, 13), Digits)

\* C3: initiate_payment with an amount that is not a number, or is zero or
\* negative, sends neither a token request nor a payment request and answers 400
C3_InvalidAmountRejected ==
    \A t \in Threads :
        (PayCall(t) /\ ~PositiveAmount(req[t].amount)) =>
            /\ call[t].tokReqs = 0
            /\ call[t].payReqs = 0
            /\ Idle(t) => resp[t].status = 400

\* C4: initiate_payment with a phone that, normalized, is not +2547 and 8
\* digits (a missing phone included) sends nothing to the gateway and answers 400
C4_InvalidPhoneRejected ==
    \A t \in Threads :
        (PayCall(t) /\ ~CanonicalPhone(normalize_phone(req[t].phone))) =>
            /\ call[t].tokReqs = 0
            /\ call[t].payReqs = 0
            /\ Idle(t) => resp[t].status = 400

\* ---- orders
ItemsOf(o) == SelectSeq(orderItems, LAMBDA it : it.order = o)

CreateDone(t) == Idle(t) /\ call[t].op = "create_order"
Created(t) == CreateDone(t) /\ resp[t].status = 201
CartOf(t) == Get(req[t].data.cartItems)

RECURSIVE LineTotals(_)
LineTotals(items) ==
    IF items = <<>> THEN 0
    ELSE Head(items).quantity * Head(items).price + LineTotals(Tail(items))

StatusValues == {"pending", "initiated", "paid", "failed"}
StatusTransitions ==
    {<<"pending", "initiated">>, <<"initiated", "paid">>, <<"initiated", "failed">>}

\* C5: an order's status is pending when the order is created, every later
\* change of it is pending to initiated, initiated to paid or initiated to
\* failed, and it is always one of the four values
C5_StatusMachine ==
    [][ \A o \in DOMAIN orders' :
          /\ orders'[o].status \in StatusValues
          /\ o \notin DOMAIN orders => orders'[o].status = "pending"
          /\ o \in DOMAIN orders =>
                \/ orders'[o].status = orders[o].status
                \/ <<orders[o].status, orders'[o].status>> \in StatusTransitions ]_vars

\* an order was placed, a payment request was sent and the gateway's callback
\* was acknowledged
C5_Witness ==
    /\ \E o \in DOMAIN orders : orders[o].status = "pending"
    /\ paymentRequests >= 1
    /\ \E t \in Threads : Idle(t) /\ call[t].op = "kopokopo_callback" /\ resp[t].status = 200

\* C6: the total stored with an order that create_order created equals the sum
\* of quantity times price over its items
C6_TotalIsSumOfLines ==
    \A t \in Threads :
        Created(t) =>
            \A o \in call[t].created : orders[o].total_price = LineTotals(ItemsOf(o))

\* C7: a create_order that answers 201 wrote one order, pending, and one item
\* per cart line, in the cart's order, each with the line's product and
\* quantity and with the catalog price read for that line during the call
C7_OrderMatchesCart ==
    \A t \in Threads :
        Created(t) =>
            \E o \in DOMAIN orders :
                /\ call[t].created = {o}
                /\ resp[t].orderId = UUIDText(o)
                /\ orders[o].status = "pending"
                /\ Len(ItemsOf(o)) = Len(CartOf(t))
                /\ \A k \in 1..Len(CartOf(t)) :
                      /\ ItemsOf(o)[k].product = Some(CartOf(t)[k].id)
                      /\ IsSome(CartOf(t)[k].quantity) =>
                            ItemsOf(o)[k].quantity = Get(CartOf(t)[k].quantity)
                      /\ ItemsOf(o)[k].price = call[t].seen[k]

\* a two-line order whose first line was priced before and whose second line
\* was priced after a change of the catalog
C7_Witness ==
    \E t \in Threads :
        /\ Created(t)
        /\ Len(CartOf(t)) = 2
        /\ \E o \in call[t].created :
              /\ Len(ItemsOf(o)) = 2
              /\ ItemsOf(o)[1].price # ItemsOf(o)[2].price
              /\ ItemsOf(o)[1].quantity = 2
              /\ ItemsOf(o)[1].price # CartOf(t)[1].price

\* the writes of one create_order: the address, then the header, then items
WritesInOrder(writes) ==
    \A i \in 1..Len(writes) :
        writes[i] = (IF i = 1 THEN "address" ELSE IF i = 2 THEN "order" ELSE "item")

FailedAfterHeader(t) == CreateDone(t) /\ resp[t].status = 500 /\ call[t].created # {}

C9_UnknownOrderIsNotFound ==
    \A t \in Threads :
        (Idle(t) /\ call[t].op = "get_order_status" /\ ~call[t].existed) =>
            resp[t].status = 404

\* a request that named a malformed identifier and was answered
MalformedIdAnswered(t) ==
    /\ Idle(t)
    /\ \/ /\ call[t].op \in {"get_order_status", "invoice_pdf_view"}
          /\ ~UUIDValid(req[t].order_id)
       \/ /\ call[t].op = "create_order"
          /\ call[t].failedAt >= 1
          /\ ~ObjectIdValid(CartOf(t)[call[t].failedAt].id)

\* C10: a malformed identifier in a request is answered with a 4xx status
C10_MalformedIdIsClientError ==
    \A t \in Threads :
        MalformedIdAnswered(t) => resp[t].status \in 400..499

\* ---- the gateway's callback
CallbackDone(t) == Idle(t) /\ call[t].op = "kopokopo_callback"

\* C11: a POST to the callback is answered 200 with status success when its
\* body is parseable JSON, and 400 when it is not
C11_CallbackAnswers ==
    \A t \in Threads :
        (CallbackDone(t) /\ req[t].method = "POST") =>
            IF BodyIsJson(req[t].body)
            THEN resp[t] = [status |-> 200, body |-> "success"]
            ELSE resp[t].status = 400

\* one POST with a JSON body was acknowledged and one with a body that is no
\* JSON was answered 400
C11_Witness ==
    \E t, u \in Threads :
        /\ CallbackDone(t) /\ req[t].method = "POST" /\ BodyIsJson(req[t].body)
        /\ resp[t].status = 200
        /\ CallbackDone(u) /\ req[u].method = "POST" /\ ~BodyIsJson(req[u].body)
        /\ resp[u].status = 400

\* a step in which thread t's call of kopokopo_callback was served
CallbackStep(t) ==
    /\ call'[t].op = "kopokopo_callback"
    /\ <<req[t], resp[t], call[t]>> # <<req'[t], resp'[t], call'[t]>>

\* C12: a callback, whatever its body, leaves every ShippingAddress, Order and
\* OrderItem, the catalog and the token cache as they were
C12_CallbackChangesNothing ==
    [][ (\E t \in Threads : CallbackStep(t)) =>
            UNCHANGED <<storeVars, kopokopo_token_cache>> ]_vars

\* a callback with a JSON body was acknowledged while an order with an item
\* was stored and the cache held a token
C12_Witness ==
    /\ \E t \in Threads :
          CallbackDone(t) /\ req[t].method = "POST" /\ resp[t].status = 200
    /\ \E t \in Threads :
          CallbackDone(t) /\ req[t].method = "POST" /\ resp[t].status = 400
    /\ orders # << >>
    /\ orderItems # <<>>
    /\ IsSome(kopokopo_token_cache.token)

\* ---- normalize_phone
PhoneCall(t) == call[t].op = "normalize_phone"

\* C13: normalize_phone applied to its own result gives that result
C13_NormalizeIdempotent ==
    \A t \in Threads :
        (PhoneCall(t) /\ call[t].applied = 2) => resp[t].ret = call[t].first

\* a text with blanks around a local number was normalized twice
C13_Witness ==
    \E t \in Threads :
        /\ PhoneCall(t)
        /\ call[t].applied = 2
        /\ Len(req[t].raw) = MaxPhoneLen
        /\ Head(req[t].raw) = " "
        /\ req[t].raw[2] = "0"
        /\ resp[t].ret # req[t].raw

\* C14: for every 8-digit suffix d the local form 07d, the national form 2547d
\* and the prefixed form +2547d are all normalized to +2547d
C14_ThreeFormsOneCanonical ==
    \A t \in Threads :
        PhoneCall(t) =>
            \A d \in PhoneSuffixes :
                req[t].raw \in {LocalForm(d), NationalForm(d), PrefixedForm(d)} =>
                    call[t].first = PrefixedForm(d)

\* a local form was rewritten to its canonical form
C14_Witness ==
    \E t \in Threads :
        /\ PhoneCall(t)
        /\ \E d \in PhoneSuffixes :
              /\ req[t].raw = LocalForm(d)
              /\ d[1] = "0"
              /\ resp[t].ret = PrefixedForm(d)

\* ---- token failures
TokenFailures == {"no_token", "http_error", "exception"}

\* C15: a call of get_kopokopo_access_token whose token request was answered
\* with an error status, raised, or was answered without access_token reports
\* the failure by returning None, never a token
C15_FailureReturnsNoToken ==
    \A t \in Threads :
        (TokenCallDone(t) /\ call[t].outcome \in TokenFailures) =>
            /\ resp[t].ret = None
            /\ ~call[t].fromCache

\* a call was answered without access_token while the other call's token was
\* in the cache, and returned None
C15_Witness ==
    \E t \in Threads :
        /\ TokenCallDone(t)
        /\ call[t].outcome = "no_token"
        /\ resp[t].ret = None
        /\ IsSome(kopokopo_token_cache.token)
        /\ \E u \in Threads \ {t} : u \in call[t].overlapped

\* ---- create_order, its errors
\* a step that ends thread t's create_order with a validation error
ValidationErrorStep(t) ==
    /\ call'[t].op = "create_order"
    /\ pc'[t] = "idle"
    /\ resp'[t].status = 400
    /\ <<req[t], resp[t], call[t], pc[t]>> # <<req'[t], resp'[t], call'[t], pc'[t]>>

\* C16: a create_order that answers 400, for a missing field or an invalid
\* shipping address, has written no ShippingAddress, Order or OrderItem
C16_ValidationErrorWritesNothing ==
    [][ \A t \in Threads :
            ValidationErrorStep(t) =>
                /\ UNCHANGED <<shippingAddresses, orders, orderItems>>
                /\ call'[t].writes = <<>>
                /\ call'[t].created = {} ]_vars

\* a request with an invalid shipping address and a cart was answered 400
C16_Witness ==
    \E t \in Threads :
        /\ CreateDone(t)
        /\ resp[t].status = 400
        /\ ~MissingRequired(req[t].data)
        /\ CartOf(t) # <<>>
        /\ shippingAddresses = <<>>

\* the lookup of the product of cart line k failed for thread t
LookupFailedAt(t, k) ==
    /\ CreateDone(t)
    /\ call[t].failedAt = k
    /\ k >= 1
    /\ Len(call[t].seen) = k - 1

\* C17: a create_order with a cart line whose product id names no product, at
\* whatever position, is answered with a client error, 400 or 404
C17_UnknownProductIsClientError ==
    \A t \in Threads :
        \A k \in 1..MaxCartLen :
            (LookupFailedAt(t, k) /\ ObjectIdValid(CartOf(t)[k].id)) =>
                resp[t].status \in {400, 404}

\* ---- order items
\* C18: an OrderItem, once written, stays and keeps its price and quantity,
\* whatever happens to its product's catalog price or to the product
C18_ItemPriceFrozen ==
    [][ /\ Len(orderItems') >= Len(orderItems)
        /\ \A i \in 1..Len(orderItems) :
              /\ orderItems'[i].price = orderItems[i].price
              /\ orderItems'[i].quantity = orderItems[i].quantity
              /\ orderItems'[i].order = orderItems[i].order ]_vars

\* one item's product was deleted and another's costs more than it did when
\* the item was written
C18_Witness ==
    \E i, j \in 1..Len(orderItems) :
        /\ orderItems[i].product = None
        /\ orderItems[i].price \in Prices
        /\ IsSome(orderItems[j].product)
        /\ IsSome(products[Get(orderItems[j].product)])
        /\ Get(products[Get(orderItems[j].product)]) # orderItems[j].price

\* ---- payments and orders
\* a step of thread t's initiate_payment
PaymentStep(t) ==
    /\ call'[t].op = "initiate_payment"
    /\ <<pc[t], req[t], resp[t], call[t]>> # <<pc'[t], req'[t], resp'[t], call'[t]>>

\* C19: no step of initiate_payment changes an order, whether the gateway
\* accepts or fails, and after any run of create_order, initiate_payment,
\* get_order_status and kopokopo_callback every order's status is pending
C19_PaymentLeavesOrdersPending ==
    /\ [](\A o \in DOMAIN orders : orders[o].status = "pending")
    /\ [][ (\E t \in Threads : PaymentStep(t)) => UNCHANGED orders ]_vars

\* a payment request was accepted by the gateway while an order was stored
C19_Witness ==
    /\ \E o \in DOMAIN orders : orders[o].status = "pending"
    /\ \E t \in Threads :
          /\ Idle(t)
          /\ PayCall(t)
          /\ resp[t].status = 200
          /\ call[t].payReqs = 1

\* ---- unexpected exceptions
\* thread t's call ended in the handler of unexpected exceptions
UnexpectedFailure(t) ==
    /\ Idle(t)
    /\ resp[t].status = 500
    /\ \/ call[t].op \in {"create_order", "get_order_status"}
       \/ call[t].op = "initiate_payment" /\ IsSome(call[t].raised)

\* C20: two calls of the same operation, of create_order, get_order_status or
\* initiate_payment, that end in an unexpected exception are answered with the
\* same body, whatever the exceptions were
C20_GenericErrorBody ==
    \A t, u \in Threads :
        (UnexpectedFailure(t) /\ UnexpectedFailure(u) /\ call[t].op = call[u].op) =>
            resp[t] = resp[u]

\* ============================================================== the gateway
\* token calls and payments side by side, within one instant of the clock
NextGateway ==
    \/ \E t \in Threads : StartGetToken(t)
    \/ \E t \in Threads : get_kopokopo_access_token(t)
    \/ \E t \in Threads : StartInitiatePayment(t, OrderSpecPhones, OrderSpecAmounts)
    \/ \E t \in Threads : initiate_payment(t)

SpecGateway == Init /\ [][NextGateway]_vars

\* the steps thread t's own code takes (views.py:565-599, 645, 670); a worker
\* that can take its next statement takes it.  The gateway's answers are no
\* step of the process: neither requests.post (views.py:587) nor the SDK's
\* calls (views.py:645, 670) are given a timeout, so nothing in the process
\* ends the wait.
ProcessStep(t) ==
    \/ Tok565(t)
    \/ Tok566(t)
    \/ Tok569(t)
    \/ Tok587(t)
    \/ Tok589(t)
    \/ Tok597(t)
    \/ Pay645(t)
    \/ Pay670(t)

\* the gateway may stay silent; the process is scheduled fairly
SpecGatewayLive == SpecGateway /\ \A t \in Threads : WF_vars(ProcessStep(t))

\* the positions at which a call waits for the gateway
GatewayWaits == {"tok_wait", "pay_wait_token", "pay_wait_payment"}

\* C21: every get_kopokopo_access_token call and every initiate_payment call
\* that waits for the gateway eventually returns to its caller, also when the
\* gateway never answers
C21_WaitingCallReturns ==
    \A t \in Threads : (pc[t] \in GatewayWaits) ~> Idle(t)

\* a call of one of the two operations that speak to the gateway
GatewayCall(t) == call[t].op \in {"get_kopokopo_access_token", "initiate_payment"}

\* C22: within one get_kopokopo_access_token call at most one token request is
\* sent, and within one initiate_payment call at most one token request and at
\* most one payment request, whatever the gateway answers
C22_NoRetryWithinCall ==
    \A t \in Threads :
        GatewayCall(t) =>
            /\ call[t].tokReqs <= 1
            /\ call[t].payReqs <= 1
            /\ call[t].op = "get_kopokopo_access_token" => call[t].payReqs = 0

\* a token call ended by an error status after its one request, beside a
\* payment ended by the gateway's refusal after one token and one payment request
C22_Witness ==
    \E t \in Threads, u \in Threads :
        /\ TokenCallDone(t)
        /\ call[t].outcome = "http_error"
        /\ call[t].tokReqs = 1
        /\ Idle(u)
        /\ PayCall(u)
        /\ resp[u].status = 500
        /\ IsSome(call[u].raised)
        /\ call[u].tokReqs = 1
        /\ call[u].payReqs = 1

\* the cache holds a token that has not reached its cached expiry
CacheFresh == CacheTokenTruthy(kopokopo_token_cache) /\ CacheNotExpired(kopokopo_token_cache, now)

\* C23: initiate_payment sends no token request to the gateway while the token
\* cache holds a token that has not reached its cached expiry
C23_PaymentUsesCachedToken ==
    [][\A t \in Threads :
          (pc[t] = "pay_645" /\ pc'[t] = "pay_wait_token") => ~CacheFresh]_vars

\* ============================================================ the same order twice
\* how many addresses may be stored before another create_order begins
MaxDuplicates == 2

\* one request body, sent by the same user as often as the bound allows
DuplicateInputs ==
    { [shippingAddress |-> Some("valid"),
       cartItems |-> Some(OneLineCart
                          \o <<[id |-> ProductB, quantity |-> None, price |-> ClientPrice]>>),
       totalPrice |-> Some(Number(200))] }

NextDuplicate ==
    \/ \E t \in Threads : StartCreateOrderUpTo(t, DuplicateInputs, MaxDuplicates)
    \/ \E t \in Threads : create_order(t)

SpecDuplicate == Init /\ [][NextDuplicate]_vars

\* the order a create_order call of thread t wrote
OrderOf(t) == CHOOSE o \in call[t].created : TRUE

\* order o holds one item per line of the cart, line by line
FullItemSet(o, cart) ==
    /\ Len(ItemsOf(o)) = Len(cart)
    /\ \A i \in 1..Len(cart) : ItemsOf(o)[i].product = Some(cart[i].id)

\* C24: two create_order calls by the same user with identical shipping
\* address, cart and total, one after the other or overlapping, that both
\* returned 201 leave two orders with different ids, each with its own full
\* set of items
C24_IdenticalCallsTwoOrders ==
    \A t \in Threads, u \in Threads :
        (t # u /\ Created(t) /\ Created(u)
            /\ req[t].data = req[u].data /\ req[t].user = req[u].user) =>
            /\ resp[t].orderId # resp[u].orderId
            /\ call[t].created \cap call[u].created = {}
            /\ \A w \in {t, u} :
                  /\ Cardinality(call[w].created) = 1
                  /\ OrderOf(w) \in DOMAIN orders
                  /\ resp[w].orderId = UUIDText(OrderOf(w))
                  /\ FullItemSet(OrderOf(w), CartOf(w))

\* two identical calls ran side by side, their items written in turns, and
\* both returned 201
C24_Witness ==
    /\ Created("t1")
    /\ Created("t2")
    /\ req["t1"].data = req["t2"].data
    /\ Len(orderItems) = 4
    /\ orderItems[1].order # orderItems[2].order

\* ============================================================== quantities
\* a cart line that asks for none of the product
ZeroLine == [id |-> ProductA, quantity |-> Some(0), price |-> ClientPrice]

QuantityInputs ==
    { [shippingAddress |-> Some("valid"), cartItems |-> Some(c),
       totalPrice |-> Some(Number(200))] :
          c \in {<<ZeroLine>>, OneLineCart \o <<ZeroLine>>, OneLineCart,
                 <<[id |-> ProductB, quantity |-> None, price |-> ClientPrice]>>} }

NextQuantity ==
    \/ \E t \in Threads : StartCreateOrder(t, QuantityInputs)
    \/ \E t \in Threads : create_order(t)

SpecQuantity == Init /\ [][NextQuantity]_vars

\* C25: every persisted OrderItem has a quantity of at least 1, a cart line
\* with quantity zero being rejected and no item persisted for it
C25_QuantityAtLeastOne ==
    \A i \in 1..Len(orderItems) : orderItems[i].quantity >= 1

\* C26: no create_order call that returned 201 leaves its order with zero
\* items, in particular not a call with an empty cartItems list
C26_CreatedOrderHasItems ==
    \A t \in Threads :
        Created(t) => \A o \in call[t].created : ItemsOf(o) # <<>>

\* thread t's create_order call has just written an item
WroteItem(t) ==
    /\ pc[t] = "ord_403"
    /\ pc'[t] # "ord_403"
    /\ Len(orderItems') = Len(orderItems) + 1

\* C27: in every reachable state each OrderItem references an Order that
\* exists, and the Order an item is written under is the one and only Order
\* written by the same create_order call, whatever other create_order calls
\* do in between
C27_ItemBelongsToOwnOrder ==
    [][/\ \A i \in 1..Len(orderItems') : orderItems'[i].order \in DOMAIN orders'
       /\ \A t \in Threads :
             WroteItem(t) =>
                /\ Cardinality(call[t].created) = 1
                /\ orderItems'[Len(orderItems')].order \in call[t].created]_vars

\* both calls are between two lines of their carts, each having written one
\* item under its own order
C27_Witness ==
    /\ pc["t1"] = "ord_402"
    /\ pc["t2"] = "ord_402"
    /\ Len(orderItems) = 2
    /\ orderItems[1].order # orderItems[2].order
    /\ Cardinality(DOMAIN orders) = 2

\* ====================================================== the identifier codec
\* fields.py:4-21.  A value is an ObjectId (its bytes, as lower-case hex
\* digits) or a text.
ObjectIdValue(hex) == [type |-> "ObjectId", value |-> hex]
TextValue(s) == [type |-> "str", value |-> s]

\* fields.py:10-14, ObjectId -> str; any other value is passed on as it is
to_representation(value) ==
    IF value.type = "ObjectId" THEN TextValue(value.value) ELSE value

\* fields.py:16-21, str -> ObjectId, or the ValidationError
to_internal_value(data) ==
    IF ObjectIdValid(data.value)
    THEN [ok |-> TRUE, value |-> ObjectIdValue(Get(FromHex(data.value)))]
    ELSE [ok |-> FALSE, error |-> "Invalid ObjectId"]

\* the ids the store hands out: 12 bytes
StoreIdDigits == Digits \cup {"a", "b", "c", "d", "e", "f"}
StoreIds == {ObjectIdValue(Rep(c, ObjectIdHexLen)) : c \in StoreIdDigits}

\* the texts a client may send where an id is expected
MaxTextLen == 3
CodecChars == {"a", "b", "c", " "}
CodecTexts ==
    Texts(CodecChars, MaxTextLen)
        \cup {Rep("z", ObjectIdHexLen), Rep("A", ObjectIdHexLen), Rep("a", ObjectIdHexLen),
              Rep("a", ObjectIdHexLen - 1), Rep("a", ObjectIdHexLen + 1),
              Rep(" ", ObjectIdHexLen),
              [i \in 1..ObjectIdHexLen |-> IF i % 3 = 0 THEN " " ELSE "a"]}

\* an id of the store is written out for a response
Represent(t) ==
    /\ Idle(t)
    /\ req[t] = NoCall
    /\ \E id \in StoreIds :
          /\ req' = [req EXCEPT ![t] = [op |-> "to_representation", value |-> id]]
          /\ resp' = [resp EXCEPT ![t] = [status |-> 0, ret |-> to_representation(id)]]
          /\ call' = [call EXCEPT ![t] = [op |-> "round_trip", parsed |-> FALSE]]
    /\ UNCHANGED <<now, gatewayVars, storeVars, pc, local>>

\* what was written out is read back
ParseBack(t) ==
    /\ Idle(t)
    /\ call[t].op = "round_trip"
    /\ ~call[t].parsed
    /\ resp' = [resp EXCEPT ![t] = [status |-> 0, ret |-> to_internal_value(resp[t].ret)]]
    /\ call' = [call EXCEPT ![t].parsed = TRUE]
    /\ UNCHANGED <<now, gatewayVars, storeVars, pc, local, req>>

\* a text of a request is read as an id
Parse(t) ==
    /\ Idle(t)
    /\ req[t] = NoCall
    /\ \E x \in CodecTexts :
          /\ req' = [req EXCEPT ![t] = [op |-> "to_internal_value", data |-> TextValue(x)]]
          /\ resp' = [resp EXCEPT ![t] = [status |-> 0, ret |-> to_internal_value(TextValue(x))]]
          /\ call' = [call EXCEPT ![t] = [op |-> "parse", parsed |-> TRUE]]
    /\ UNCHANGED <<now, gatewayVars, storeVars, pc, local>>

CodecThreads == {"t1"}

NextCodec ==
    \/ \E t \in CodecThreads : Represent(t)
    \/ \E t \in CodecThreads : ParseBack(t)
    \/ \E t \in CodecThreads : Parse(t)

SpecCodec == Init /\ [][NextCodec]_vars

\* 24 hexadecimal characters
CanonicalIdText(s) == Len(s) = ObjectIdHexLen /\ AllIn(s, HexDigits)

\* C28: reading back the text written for a store id gives that id, and
\* reading a text that is not 24 hexadecimal characters fails with the
\* validation error
C28_CodecRoundTrips ==
    \A t \in Threads :
        /\ (call[t].op = "round_trip" /\ call[t].parsed) =>
              /\ resp[t].ret.ok
              /\ resp[t].ret.value = req[t].value
        /\ (call[t].op = "parse" /\ ~CanonicalIdText(req[t].data.value)) =>
              /\ ~resp[t].ret.ok
              /\ resp[t].ret.error = "Invalid ObjectId"

\* the expiry views.py:597 computes from the response that carried token k
ExpiryOfToken(k) ==
    CachedExpiry(Get(issuedTokens[k].received), ExpiresIn(issuedTokens[k]))

\* C29: once the concurrent get_kopokopo_access_token calls have returned, the
\* token and the expiry held in the cache come from the same gateway response
C29_TokenAndExpiryFromOneResponse ==
    (\A t \in Threads : Idle(t)) =>
        (IsSome(kopokopo_token_cache.token) =>
            kopokopo_token_cache.expires_at
                = Some(ExpiryOfToken(Get(kopokopo_token_cache.token))))

\* C30: once a get_kopokopo_access_token call has failed, a call that takes
\* its token from the cache never returns an empty token
C30_NoEmptyTokenFromCache ==
    \A t \in Threads :
        (/\ TokenCallDone(t)
         /\ call[t].fromCache
         /\ \E u \in Threads \ {t} :
               TokenCallDone(u) /\ call[u].outcome \in TokenFailures) =>
            IsSome(resp[t].ret)

====
